---- MODULE Spec2Model ----
(***************************************************************************)
(* UserEntry (src/unnamed/part_000): an in-memory mirror of one document   *)
(* of the RethinkDB table `users`.  Every mutation method updates the      *)
(* local fields and merges a ReQL patch into `_changes`; save() sends one  *)
(* query, insert(get(id).default(skeleton).merge(_changes),                *)
(* {conflict: 'update', returnChanges: 'always'}), and builds a new        *)
(* UserEntry from the returned document.                                   *)
(*                                                                         *)
(* JavaScript values are tagged records: Num, Str, Bool, Undef, Obj (a     *)
(* plain object, i.e. a mapping from keys to values) and the two ReQL      *)
(* terms the methods build, RowAdd and RowSubMax.  ReQL terms are callable *)
(* (`r.row('streak')('streak')`, line 135), so their typeof is 'function'  *)
(* and _deepMerge treats them as scalars.                                  *)
(***************************************************************************)
EXTENDS Integers, Sequences, FiniteSets, TLC

VARIABLES stored, pc, data, changes, pending, ret, hist, attempt, last

vars == <<stored, pc, data, changes, pending, ret, hist, attempt, last>>

(***************************************************************************)
(* Bounds                                                                  *)
(***************************************************************************)
MaxCalls == 2

MaxSaves == 1

\* frames of toJSON() the call stack holds before the engine gives up
MaxStack == 3

(***************************************************************************)
(* JavaScript values                                                       *)
(***************************************************************************)
Num(n) == [k |-> "num", n |-> n]

Str(s) == [k |-> "str", s |-> s]

Bool(b) == [k |-> "bool", b |-> b]

Undef == [k |-> "undefined"]

\* null: what get(id) gives for a missing document, an absent reference,
\* and a null a caller puts into the object it passes to update()
Null == [k |-> "null"]

Obj(m) == [k |-> "object", m |-> m]

EmptyObject == [key \in {} |-> Undef]

\* r.row(path...).add(n)
RowAdd(path, n) == [k |-> "function", term |-> "add", path |-> path, n |-> n]

\* r.expr([r.row(path...).sub(n), 0]).max()
RowSubMax(path, n) == [k |-> "function", term |-> "submax", path |-> path, n |-> n]

Max(a, b) == IF a >= b THEN a ELSE b

Min(a, b) == IF a <= b THEN a ELSE b

\* v is a plain object (a mapping)
IsObject(v) == v.k = "object"

\* typeof v === 'object', which null satisfies too
TypeofObject(v) == v.k \in {"object", "null"}

\* { ...v } for a v whose typeof is 'object': spreading null gives {}
Spread(v) == IF v = Null THEN Obj(EmptyObject) ELSE Obj(v.m)

\* the truthiness test of `!amount` and `!target[key]`
Truthy(v) ==
  CASE v.k = "num" -> v.n # 0
    [] v.k = "str" -> v.s # ""
    [] v.k = "bool" -> v.b
    [] v.k = "undefined" -> FALSE
    [] v.k = "null" -> FALSE
    [] OTHER -> TRUE

\* Number(s) for the strings of the model: a decimal literal gives its value
StringToNumber(s) ==
  CASE s = "40" -> 40
    [] s = "7" -> 7
    [] s = "-5" -> 0 - 5
    [] OTHER -> 0

\* amount = typeof amount !== 'number' ? Number(amount) : amount
ToNumber(v) ==
  CASE v.k = "num" -> v.n
    [] v.k = "str" -> StringToNumber(v.s)
    [] v.k = "bool" -> IF v.b THEN 1 ELSE 0
    [] OTHER -> 0

(***************************************************************************)
(* _deepMerge(target, source), lines 224-242.  target and source are       *)
(* mappings; the first loop copies target (a nested object shallowly), the *)
(* second loop lets source replace or recursively merge.  The recursive    *)
(* call on a null of source (its typeof is 'object') throws a TypeError in *)
(* Object.keys(source): deepMergeThrows tells when, and deepMerge is the   *)
(* value returned otherwise.                                               *)
(***************************************************************************)
RECURSIVE deepMergeThrows(_, _)
deepMergeThrows(target, source) ==
  \E key \in (DOMAIN target) \cap (DOMAIN source) :
    /\ Truthy(target[key]) /\ TypeofObject(target[key])
    /\ TypeofObject(source[key])
    /\ (source[key] = Null \/ deepMergeThrows(target[key].m, source[key].m))

\* a merge in which a key the target already holds keeps the target's value
deepMerge_KeepTarget(target, source) ==
  [key \in (DOMAIN target) \cup (DOMAIN source) |->
     IF key \in DOMAIN target THEN target[key] ELSE source[key]]

\* a merge that adds up two numbers meeting at a key and never recurses
deepMerge_Accumulate(target, source) ==
  [key \in (DOMAIN target) \cup (DOMAIN source) |->
     IF key \notin DOMAIN source THEN target[key]
     ELSE IF key \in DOMAIN target /\ target[key].k = "num" /\ source[key].k = "num"
       THEN Num(target[key].n + source[key].n)
     ELSE source[key]]

RECURSIVE deepMerge(_, _)
deepMerge(target, source) ==
  LET destination == [key \in DOMAIN target |->
                        IF TypeofObject(target[key]) THEN Spread(target[key]) ELSE target[key]]
  IN [key \in (DOMAIN target) \cup (DOMAIN source) |->
        IF key \notin DOMAIN source THEN destination[key]
        ELSE IF key \notin DOMAIN target \/ ~Truthy(target[key]) \/ ~TypeofObject(target[key])
          THEN source[key]
        ELSE IF ~TypeofObject(source[key])
          THEN source[key]
        ELSE Obj(deepMerge(target[key].m, source[key].m))]

(***************************************************************************)
(* The database side of save(): ReQL get(id).default(d).merge(patch).      *)
(* merge() wraps a patch holding r.row into a function of the document it  *)
(* is merged onto, so every term is evaluated against that document.       *)
(***************************************************************************)
RECURSIVE GetField(_, _)
GetField(doc, path) ==
  IF Len(path) = 1 THEN doc[Head(path)] ELSE GetField(doc[Head(path)].m, Tail(path))

\* value of one ReQL term against the document `row`
EvalTerm(v, row) ==
  IF v.k # "function" THEN v
  ELSE IF v.term = "add" THEN Num(GetField(row, v.path).n + v.n)
  ELSE Num(Max(GetField(row, v.path).n - v.n, 0))

RECURSIVE EvalObject(_, _)
EvalObject(m, row) ==
  [key \in DOMAIN m |->
     IF IsObject(m[key]) THEN Obj(EvalObject(m[key].m, row)) ELSE EvalTerm(m[key], row)]

\* a shallow merge: a nested object of the patch replaces the stored one
ReqlMerge_Shallow(doc, patch) ==
  [key \in (DOMAIN doc) \cup (DOMAIN patch) |->
     IF key \in DOMAIN patch THEN patch[key] ELSE doc[key]]

\* ReQL merge: objects on both sides merge recursively, anything else replaces
RECURSIVE ReqlMerge(_, _)
ReqlMerge(doc, patch) ==
  [key \in (DOMAIN doc) \cup (DOMAIN patch) |->
     IF key \notin DOMAIN patch THEN doc[key]
     ELSE IF key \in DOMAIN doc /\ IsObject(doc[key]) /\ IsObject(patch[key])
       THEN Obj(ReqlMerge(doc[key].m, patch[key].m))
     ELSE patch[key]]

\* get(id).default(d).merge(_changes): the patch resolved against the row
MergeChanges(row, patch) == ReqlMerge(row, EvalObject(patch, row))


(***************************************************************************)
(* The users table holds the document of one user id (or none).            *)
(***************************************************************************)
UserId == "U1"

Records == {1, 2}

\* Memer.db.getDefaultUser(id): the skeleton of a user without a document
getDefaultUser(id) ==
  [id |-> Str(id), pls |-> Num(0), lastCmd |-> Num(0), lastRan |-> Str("nothing"),
   spam |-> Num(0), pocket |-> Num(0), bank |-> Num(0), won |-> Num(0),
   lost |-> Num(0), shared |-> Num(0),
   streak |-> Obj([time |-> Num(0), streak |-> Num(0)]),
   upvoted |-> Bool(FALSE), dblUpvoted |-> Bool(FALSE)]

\* r.table('users').get(id).default(getDefaultUser(id))
GetOrDefault(tbl, id) == IF tbl = Null THEN getDefaultUser(id) ELSE tbl.m

\* documents the table may hold when the model starts
InitialDocs ==
  {Null,
   Obj([getDefaultUser(UserId) EXCEPT !.pocket = Num(50), !.won = Num(50),
          !.streak = Obj([time |-> Num(500), streak |-> Num(2)])])}

\* values Date.now() may give
Clock == {1000}

\* the latest step: the operation, the entry it was called on, its two
\* arguments, whether it returned (ok) or threw/rejected, and the object it
\* passed to this.update()
Called(op, r, arg, transfer, ok, object) ==
  [op |-> op, r |-> r, arg |-> arg, transfer |-> transfer, ok |-> ok, object |-> object]

NoCall == Called("none", 0, Undef, Undef, TRUE, EmptyObject)

\* an event of the history of one entry
Event(op, arg, transfer) == [op |-> op, arg |-> arg, transfer |-> transfer]

MethodNames ==
  {"update", "addPocket", "removePocket", "addBank", "removeBank", "updateStreak",
   "resetStreak", "addPls", "addSpam", "setLastCmd"}

IsMethodCall(e) == e.op \in MethodNames \/ e.op = "new UserEntry"

IsSave(e) == e.op = "save"

Init ==
  /\ stored \in InitialDocs
  /\ pc = [r \in Records |-> "new"]
  /\ data = [r \in Records |-> EmptyObject]
  /\ changes = [r \in Records |-> EmptyObject]
  /\ pending = [r \in Records |-> Null]
  /\ ret = [r \in Records |-> Null]
  /\ hist = [r \in Records |-> <<>>]
  /\ attempt = [r \in Records |-> Null]
  /\ last = NoCall

\* new UserEntry(userData, Memer), lines 36-41
NewUserEntry(userData) == [data |-> userData, changes |-> EmptyObject]

\* Memer.db.getUser(id): fetch the document or the skeleton, write nothing
Fetch(r) ==
  /\ pc[r] = "new"
  /\ LET entry == NewUserEntry(GetOrDefault(stored, UserId))
     IN /\ data' = [data EXCEPT ![r] = entry.data]
        /\ changes' = [changes EXCEPT ![r] = entry.changes]
  /\ pc' = [pc EXCEPT ![r] = "ready"]
  /\ hist' = [hist EXCEPT ![r] = <<Event("fetch", stored, Undef)>>]
  /\ last' = Called("fetch", r, Undef, Undef, TRUE, EmptyObject)
  /\ UNCHANGED <<stored, pending, ret, attempt>>

(***************************************************************************)
(* Mutation methods.  A call is possible on a fetched entry that has no    *)
(* save() in flight; MaxCalls bounds the calls made on one handle.         *)
(***************************************************************************)
CanCall(r) == pc[r] = "ready" /\ Len(SelectSeq(hist[r], IsMethodCall)) < MaxCalls

\* update(object), lines 48-51
updateChanges(ch, object) == deepMerge(ch, object)

\* throw new Error('Missing mandatory "amount" parameter'), or the TypeError
\* of _deepMerge: the call changes nothing
Throw(r, op, arg, transfer) ==
  /\ last' = Called(op, r, arg, transfer, FALSE, EmptyObject)
  /\ UNCHANGED <<stored, pc, data, changes, pending, ret, hist, attempt>>

\* a method that writes its local fields straight into the table
Apply_WriteThrough(r, op, arg, transfer, newData, patch) ==
  /\ data' = [data EXCEPT ![r] = newData]
  /\ changes' = [changes EXCEPT ![r] = updateChanges(changes[r], patch)]
  /\ hist' = [hist EXCEPT ![r] = Append(@, Event(op, arg, transfer))]
  /\ attempt' = [attempt EXCEPT ![r] = Null]
  /\ last' = Called(op, r, arg, transfer, TRUE, patch)
  /\ stored' = Obj(newData)
  /\ UNCHANGED <<pc, pending, ret>>

\* the assignments to this.<field> followed by this.update(patch)
Apply(r, op, arg, transfer, newData, patch) ==
  /\ data' = [data EXCEPT ![r] = newData]
  /\ changes' = [changes EXCEPT ![r] = updateChanges(changes[r], patch)]
  /\ hist' = [hist EXCEPT ![r] = Append(@, Event(op, arg, transfer))]
  /\ attempt' = [attempt EXCEPT ![r] = Null]
  /\ last' = Called(op, r, arg, transfer, TRUE, patch)
  /\ UNCHANGED <<stored, pc, pending, ret>>

update(r, object) ==
  /\ CanCall(r)
  /\ IF deepMergeThrows(changes[r], object)
       THEN Throw(r, "update", Obj(object), Undef)
       ELSE Apply(r, "update", Obj(object), Undef, data[r], object)

\* lines 63-64
addPocketLocal(d, amount) ==
  [d EXCEPT !.pocket = Num(d.pocket.n + amount), !.won = Num(d.won.n + amount)]

\* line 65
addPocketChanges(amount) ==
  [pocket |-> RowAdd(<<"pocket">>, amount), won |-> RowAdd(<<"won">>, amount)]

addPocket(r, amount) ==
  /\ CanCall(r)
  /\ IF ~Truthy(amount)
       THEN Throw(r, "addPocket", amount, Undef)
       ELSE LET n == ToNumber(amount)
            IN Apply(r, "addPocket", amount, Undef,
                     addPocketLocal(data[r], n), addPocketChanges(n))

\* a removePocket without the clamp at 0
removePocketLocal_NoClamp(d, amount) ==
  [d EXCEPT !.pocket = Num(d.pocket.n - amount), !.lost = Num(d.lost.n + amount)]

\* lines 79-80
removePocketLocal(d, amount) ==
  [d EXCEPT !.pocket = Num(Max(d.pocket.n - amount, 0)), !.lost = Num(d.lost.n + amount)]

\* line 81
removePocketChanges(amount) ==
  [pocket |-> RowSubMax(<<"pocket">>, amount), lost |-> RowAdd(<<"lost">>, amount)]

removePocket(r, amount) ==
  /\ CanCall(r)
  /\ IF ~Truthy(amount)
       THEN Throw(r, "removePocket", amount, Undef)
       ELSE LET n == ToNumber(amount)
            IN Apply(r, "removePocket", amount, Undef,
                     removePocketLocal(data[r], n), removePocketChanges(n))

\* a parameter with a default value: undefined takes the default
Default(v, def) == IF v = Undef THEN def ELSE v

\* a transfer into the bank that takes the amount from the pocket unclamped
addBankLocal_NoClamp(d, amount, transfer) ==
  LET d1 == [d EXCEPT !.bank = Num(d.bank.n + amount)]
  IN IF Truthy(transfer)
       THEN [d1 EXCEPT !.pocket = Num(d.pocket.n - amount)]
       ELSE d1

\* lines 96 and 99
addBankLocal(d, amount, transfer) ==
  LET d1 == [d EXCEPT !.bank = Num(d.bank.n + amount)]
  IN IF Truthy(transfer)
       THEN [d1 EXCEPT !.pocket = Num(Max(d.pocket.n - amount, 0))]
       ELSE d1

\* a transfer that forgets to queue the pocket operation
addBankChanges_BankOnly(amount, transfer) == [bank |-> RowAdd(<<"bank">>, amount)]

\* lines 97 and 100
addBankChanges(amount, transfer) ==
  IF Truthy(transfer)
    THEN [bank |-> RowAdd(<<"bank">>, amount), pocket |-> RowSubMax(<<"pocket">>, amount)]
    ELSE [bank |-> RowAdd(<<"bank">>, amount)]

addBank(r, amount, transferArg) ==
  /\ CanCall(r)
  /\ LET transfer == Default(transferArg, Bool(TRUE))
     IN IF ~Truthy(amount)
          THEN Throw(r, "addBank", amount, transferArg)
          ELSE LET n == ToNumber(amount)
               IN Apply(r, "addBank", amount, transferArg,
                        addBankLocal(data[r], n, transfer), addBankChanges(n, transfer))

\* lines 117 and 120
removeBankLocal(d, amount, transfer) ==
  LET d1 == [d EXCEPT !.bank = Num(Max(d.bank.n - amount, 0))]
  IN IF Truthy(transfer)
       THEN [d1 EXCEPT !.pocket = Num(d.pocket.n + amount)]
       ELSE d1

\* lines 118 and 121
removeBankChanges(amount, transfer) ==
  IF Truthy(transfer)
    THEN [bank |-> RowSubMax(<<"bank">>, amount), pocket |-> RowAdd(<<"pocket">>, amount)]
    ELSE [bank |-> RowSubMax(<<"bank">>, amount)]

\* a removeBank that assigns this.bank before it tests the amount
removeBank_LateCheck(r, amount, transferArg) ==
  /\ CanCall(r)
  /\ IF ~Truthy(amount)
       THEN /\ data' = [data EXCEPT ![r] = removeBankLocal(@, ToNumber(amount), Bool(FALSE))]
            /\ last' = Called("removeBank", r, amount, transferArg, FALSE, EmptyObject)
            /\ UNCHANGED <<stored, pc, changes, pending, ret, hist, attempt>>
       ELSE LET transfer == Default(transferArg, Bool(TRUE))
                n == ToNumber(amount)
            IN Apply(r, "removeBank", amount, transferArg,
                     removeBankLocal(data[r], n, transfer), removeBankChanges(n, transfer))

removeBank(r, amount, transferArg) ==
  /\ CanCall(r)
  /\ LET transfer == Default(transferArg, Bool(TRUE))
     IN IF ~Truthy(amount)
          THEN Throw(r, "removeBank", amount, transferArg)
          ELSE LET n == ToNumber(amount)
               IN Apply(r, "removeBank", amount, transferArg,
                        removeBankLocal(data[r], n, transfer), removeBankChanges(n, transfer))

\* Date.now() as the default of a timestamp parameter
Timestamps(arg) == IF arg = Undef THEN {Num(t) : t \in Clock} ELSE {arg}

\* line 134
updateStreakLocal(d, timestamp, streak) ==
  [d EXCEPT !.streak = Obj([time |-> timestamp, streak |-> streak])]

\* an updateStreak that queues an increment of two
updateStreakChanges_AddTwo(timestamp) ==
  [streak |-> Obj([time |-> timestamp, streak |-> RowAdd(<<"streak", "streak">>, 2)])]

\* line 135
updateStreakChanges(timestamp) ==
  [streak |-> Obj([time |-> timestamp, streak |-> RowAdd(<<"streak", "streak">>, 1)])]

updateStreak(r, timestampArg, streakArg) ==
  /\ CanCall(r)
  /\ \E timestamp \in Timestamps(timestampArg) :
       LET streak == Default(streakArg, Num(data[r].streak.m.streak.n + 1))
       IN Apply(r, "updateStreak", timestampArg, streakArg,
                updateStreakLocal(data[r], timestamp, streak), updateStreakChanges(timestamp))

\* line 144
resetStreakLocal(d) ==
  [d EXCEPT !.streak = Obj([d.streak.m EXCEPT !.streak = Num(0)])]

\* line 145
resetStreakChanges == [streak |-> Obj([streak |-> Num(0)])]

resetStreak(r) ==
  /\ CanCall(r)
  /\ Apply(r, "resetStreak", Undef, Undef, resetStreakLocal(data[r]), resetStreakChanges)

\* line 155
addPlsLocal(d, amount) == [d EXCEPT !.pls = Num(d.pls.n + amount)]

\* an addPls that queues twice the increment it applies locally
addPlsChanges_Double(amount) == [pls |-> RowAdd(<<"pls">>, amount + amount)]

\* line 156
addPlsChanges(amount) == [pls |-> RowAdd(<<"pls">>, amount)]

addPls(r, amountArg) ==
  /\ CanCall(r)
  /\ LET amount == Default(amountArg, Num(1)).n
     IN Apply(r, "addPls", amountArg, Undef, addPlsLocal(data[r], amount), addPlsChanges(amount))

\* line 166
addSpamLocal(d, amount) == [d EXCEPT !.spam = Num(d.spam.n + amount)]

\* line 167
addSpamChanges(amount) == [spam |-> RowAdd(<<"spam">>, amount)]

addSpam(r, amountArg) ==
  /\ CanCall(r)
  /\ LET amount == Default(amountArg, Num(1)).n
     IN Apply(r, "addSpam", amountArg, Undef, addSpamLocal(data[r], amount), addSpamChanges(amount))

\* lines 178-179
setLastCmdLocal(d, cmd, timestamp) == [d EXCEPT !.lastRan = cmd, !.lastCmd = timestamp]

\* a setLastCmd that queues the command name without its timestamp
setLastCmdChanges_NameOnly(cmd, timestamp) == [lastRan |-> cmd]

\* line 180
setLastCmdChanges(cmd, timestamp) == [lastCmd |-> timestamp, lastRan |-> cmd]

setLastCmd(r, cmdArg, timestampArg) ==
  /\ CanCall(r)
  /\ \E timestamp \in Timestamps(timestampArg) :
       LET cmd == Default(cmdArg, Str("nothing"))
       IN Apply(r, "setLastCmd", cmdArg, timestampArg,
                setLastCmdLocal(data[r], cmd, timestamp), setLastCmdChanges(cmd, timestamp))

(***************************************************************************)
(* save(), lines 188-192.  The argument of insert() is a subquery: the     *)
(* server evaluates get(id).default(skeleton).merge(_changes) to a         *)
(* document first (saveEvaluate) and then performs the insert with         *)
(* conflict: 'update' (saveInsert), which merges that document onto the    *)
(* one the table holds at that moment.  The query may fail at either       *)
(* point (saveReject); then nothing is written and the promise rejects.    *)
(* MaxSaves bounds the queries of one entry that reach the table.          *)
(* pending[r] is the query of entry r under evaluation: the row that       *)
(* get(id).default(skeleton) gave and the document merge() made of it.     *)
(***************************************************************************)
\* the save() queries of entry r that were written or are under evaluation
SavesSent(r) ==
  Len(SelectSeq(hist[r], IsSave)) + (IF pc[r] = "evaluated" THEN 1 ELSE 0)

\* MaxSaves bounds the save() queries of a handle on which MaxCalls calls
\* were made; every call not made leaves room for one more save()
CanSave(r) ==
  SavesSent(r) + Len(SelectSeq(hist[r], IsMethodCall)) < MaxSaves + MaxCalls

saveEvaluate(r) ==
  /\ pc[r] = "ready"
  /\ CanSave(r)
  /\ LET row == GetOrDefault(stored, UserId)
     IN pending' = [pending EXCEPT ![r] = [row |-> row, doc |-> Obj(MergeChanges(row, changes[r]))]]
  /\ pc' = [pc EXCEPT ![r] = "evaluated"]
  /\ last' = Called("save:evaluate", r, Undef, Undef, TRUE, EmptyObject)
  /\ UNCHANGED <<stored, data, changes, ret, hist, attempt>>

\* insert(doc, {conflict: 'update'}): a new document, or old.merge(doc)
InsertUpdate(tbl, doc) == IF tbl = Null THEN doc ELSE Obj(ReqlMerge(tbl.m, doc.m))

\* whether this save() repeats one that was rejected
Retried(r) == Bool(attempt[r] # Null)

\* a save() that resolves with an entry built from its own local fields
saveInsert_LocalEntry(r) ==
  /\ pc[r] = "evaluated"
  /\ stored' = InsertUpdate(stored, pending[r].doc)
  /\ ret' = [ret EXCEPT ![r] = NewUserEntry(data[r])]
  /\ pending' = [pending EXCEPT ![r] = Null]
  /\ pc' = [pc EXCEPT ![r] = "ready"]
  /\ attempt' = [q \in Records |-> Null]
  /\ hist' = [hist EXCEPT ![r] = Append(@, Event("save", Undef, Undef))]
  /\ last' = Called("save", r, Retried(r), Undef, TRUE, EmptyObject)
  /\ UNCHANGED <<data, changes>>

\* a save() that empties the _changes of the entry it was called on
saveInsert_ClearsChanges(r) ==
  /\ pc[r] = "evaluated"
  /\ stored' = InsertUpdate(stored, pending[r].doc)
  /\ ret' = [ret EXCEPT ![r] = NewUserEntry(stored'.m)]
  /\ pending' = [pending EXCEPT ![r] = Null]
  /\ pc' = [pc EXCEPT ![r] = "ready"]
  /\ attempt' = [q \in Records |-> Null]
  /\ hist' = [hist EXCEPT ![r] = Append(@, Event("save", Undef, Undef))]
  /\ last' = Called("save", r, Retried(r), Undef, TRUE, EmptyObject)
  /\ changes' = [changes EXCEPT ![r] = EmptyObject]
  /\ UNCHANGED data

\* .then(c => new UserEntry(c.changes[0].new_val, this._client))
saveInsert(r) ==
  /\ pc[r] = "evaluated"
  /\ stored' = InsertUpdate(stored, pending[r].doc)
  /\ ret' = [ret EXCEPT ![r] = NewUserEntry(stored'.m)]
  /\ pending' = [pending EXCEPT ![r] = Null]
  /\ pc' = [pc EXCEPT ![r] = "ready"]
  /\ attempt' = [q \in Records |-> Null]
  /\ hist' = [hist EXCEPT ![r] = Append(@, Event("save", Undef, Undef))]
  /\ last' = Called("save", r, Retried(r), Undef, TRUE, EmptyObject)
  /\ UNCHANGED <<data, changes>>

\* a rejection that also throws the pending changes away
saveReject_DropsChanges(r) ==
  /\ \/ pc[r] = "evaluated"
     \/ pc[r] = "ready" /\ CanSave(r)
  /\ pending' = [pending EXCEPT ![r] = Null]
  /\ pc' = [pc EXCEPT ![r] = "ready"]
  /\ changes' = [changes EXCEPT ![r] = EmptyObject]
  /\ attempt' = [attempt EXCEPT ![r] = [table |-> stored, changes |-> changes[r]]]
  /\ last' = Called("save", r, Undef, Undef, FALSE, EmptyObject)
  /\ UNCHANGED <<stored, data, ret, hist>>

saveReject(r) ==
  /\ \/ pc[r] = "evaluated"
     \/ pc[r] = "ready" /\ CanSave(r)
  /\ pending' = [pending EXCEPT ![r] = Null]
  /\ pc' = [pc EXCEPT ![r] = "ready"]
  /\ attempt' = [attempt EXCEPT ![r] = [table |-> stored, changes |-> changes[r]]]
  /\ last' = Called("save", r, Undef, Undef, FALSE, EmptyObject)
  /\ UNCHANGED <<stored, data, changes, ret, hist>>

\* the caller goes on with the entry save() returned
UseReturned(r) ==
  /\ pc[r] = "ready"
  /\ ret[r] # Null
  /\ data' = [data EXCEPT ![r] = ret[r].data]
  /\ changes' = [changes EXCEPT ![r] = ret[r].changes]
  /\ ret' = [ret EXCEPT ![r] = Null]
  /\ hist' = [hist EXCEPT ![r] = Append(@, Event("new UserEntry", Undef, Undef))]
  /\ attempt' = [attempt EXCEPT ![r] = Null]
  /\ last' = Called("new UserEntry", r, Undef, Undef, TRUE, EmptyObject)
  /\ UNCHANGED <<stored, pc, pending>>

(***************************************************************************)
(* toPlainObject() and toJSON(), lines 194-216.  `this` has the fields of  *)
(* the document as own properties, then _client and _changes (lines        *)
(* 37-40); the methods are properties of the prototype.                    *)
(***************************************************************************)
\* the Memer instance the entry keeps in _client
Memer == Obj([r |-> Str("rethinkdbdash"), db |-> Str("db")])

\* the own properties of entry r
OwnProperties(r) ==
  [key \in (DOMAIN data[r]) \cup {"_client", "_changes"} |->
     IF key = "_client" THEN Memer
     ELSE IF key = "_changes" THEN Obj(changes[r])
     ELSE data[r][key]]

\* a copy that returns every own property
PlainObject_NoFilter(this) == this

\* lines 208-214: the own properties that are no function, _client and
\* _changes left out
PlainObject(this) ==
  [key \in {j \in DOMAIN this : this[j].k # "function" /\ j \notin {"_client", "_changes"}} |->
     this[key]]

\* toPlainObject() reads the entry and changes nothing
toPlainObject(r) ==
  /\ pc[r] # "new"
  /\ last' = Called("toPlainObject", r, Undef, Undef, TRUE, PlainObject(OwnProperties(r)))
  /\ UNCHANGED <<stored, pc, data, changes, pending, ret, hist, attempt>>

\* the methods of UserEntry.prototype
PrototypeMethods == MethodNames \cup {"save", "toJSON", "toPlainObject", "_deepMerge"}

\* the text JSON.stringify gives for a mapping without a toJSON method:
\* its own properties, those holding a function left out
JSONText(this) == [k |-> "str", json |-> [key \in {j \in DOMAIN this : this[j].k # "function"} |-> this[key]]]

\* a toJSON()/JSON.stringify(this) recursion is on the stack (last.arg is
\* its depth); the calls are synchronous, nothing else runs meanwhile
Serializing == last.op = "JSON.stringify"

\* toJSON(), line 199: the body calls JSON.stringify(this)
toJSON(r) ==
  /\ pc[r] # "new"
  /\ ~Serializing
  /\ last' = Called("JSON.stringify", r, Num(1), Undef, TRUE, EmptyObject)
  /\ UNCHANGED <<stored, pc, data, changes, pending, ret, hist, attempt>>

\* JSON.stringify(value) calls value.toJSON() when value has such a method
\* and serializes what it returns; UserEntry has one, whose body calls
\* JSON.stringify(this) again, until the stack is exhausted and the
\* RangeError leaves the outermost toJSON()
JSONstringify(r) ==
  /\ Serializing
  /\ last.r = r
  /\ IF "toJSON" \in PrototypeMethods
       THEN IF last.arg.n < MaxStack
              THEN last' = Called("JSON.stringify", r, Num(last.arg.n + 1), Undef, TRUE, EmptyObject)
              ELSE last' = Called("toJSON", r, Undef, Undef, FALSE, EmptyObject)
       ELSE last' = Called("toJSON", r, Undef, Undef, TRUE, JSONText(OwnProperties(r)))
  /\ UNCHANGED <<stored, pc, data, changes, pending, ret, hist, attempt>>

(***************************************************************************)
(* Arguments the callers pass                                              *)
(***************************************************************************)
CoinAmounts == {Num(100), Num(40)}

RemovedAmounts == {Num(40)}

Amounts == {Num(40), Num(0 - 5), Str("7"), Num(0), Str(""), Undef}

Transfers == {Bool(TRUE), Bool(FALSE)}

Patches ==
  {[pocket |-> Num(500), shared |-> RowAdd(<<"shared">>, 3), streak |-> Obj([time |-> Num(7)])]}

\* one UserEntry, every method
Next ==
  \E r \in {1} :
    \/ Fetch(r)
    \/ \E object \in Patches : update(r, object)
    \/ \E amount \in CoinAmounts : addPocket(r, amount)
    \/ \E amount \in RemovedAmounts : removePocket(r, amount)
    \/ \E amount \in CoinAmounts, transfer \in Transfers : addBank(r, amount, transfer)
    \/ \E amount \in RemovedAmounts, transfer \in Transfers : removeBank(r, amount, transfer)
    \/ updateStreak(r, Undef, Undef)
    \/ resetStreak(r)
    \/ addPls(r, Undef)
    \/ addSpam(r, Undef)
    \/ setLastCmd(r, Str("ping"), Undef)
    \/ saveEvaluate(r)
    \/ saveInsert(r)
    \/ saveReject(r)
    \/ UseReturned(r)

Spec == Init /\ [][Next]_vars

ArgTransfers == {Undef, Bool(TRUE), Bool(FALSE)}

\* one UserEntry, the coin methods with every kind of argument
NextArgs ==
  \E r \in {1} :
    \/ Fetch(r)
    \/ \E amount \in Amounts : addPocket(r, amount)
    \/ \E amount \in Amounts : removePocket(r, amount)
    \/ \E amount \in Amounts, transfer \in ArgTransfers : addBank(r, amount, transfer)
    \/ \E amount \in Amounts, transfer \in ArgTransfers : removeBank(r, amount, transfer)

SpecArgs == Init /\ [][NextArgs]_vars

\* the amount each of the two invocations adds
ConcAmount(r) == IF r = 1 THEN Num(100) ELSE Num(40)

\* two entries of the same user, used by two command invocations
NextConc ==
  \E r \in Records :
    \/ Fetch(r)
    \/ addPocket(r, ConcAmount(r))
    \/ saveEvaluate(r)
    \/ saveInsert(r)
    \/ saveReject(r)

SpecConc == Init /\ [][NextConc]_vars

(***************************************************************************)
(* _deepMerge on nested mappings: one entry whose _changes is built by     *)
(* update(object) calls, so every pair of the mappings below meets as      *)
(* target and source.  The values are numbers (0 included), a ReQL term,   *)
(* null and mappings nested up to three deep.                              *)
(***************************************************************************)
MergeObjects ==
  {EmptyObject,
   [a |-> Num(5)],
   [a |-> Num(0)],
   [a |-> Null],
   [c |-> Null],
   [b |-> RowAdd(<<"b">>, 1)],
   [a |-> Obj([b |-> Num(1)])],
   [a |-> Obj([b |-> Num(9)])],
   [a |-> Obj([b |-> Num(1), c |-> Num(2)])],
   [a |-> Obj([b |-> Num(1), c |-> Null])],
   [a |-> Obj([b |-> Obj([c |-> Num(1), d |-> Num(3)]), c |-> Num(2)])],
   [a |-> Obj([b |-> Obj([c |-> Num(9)])])]}

NextMerge ==
  \E r \in {1} :
    \/ Fetch(r)
    \/ \E object \in MergeObjects : update(r, object)

SpecMerge == Init /\ [][NextMerge]_vars

(***************************************************************************)
(* One entry with methods of every kind, save() and the two conversions.   *)
(***************************************************************************)
\* a call that may start when no toJSON() is running
Idle(A) == ~Serializing /\ A

NextView ==
  \E r \in {1} :
    \/ Idle(Fetch(r))
    \/ \E object \in Patches : Idle(update(r, object))
    \/ Idle(addPocket(r, Num(100)))
    \/ Idle(removeBank(r, Num(40), Bool(TRUE)))
    \/ Idle(updateStreak(r, Undef, Undef))
    \/ Idle(setLastCmd(r, Str("ping"), Undef))
    \/ Idle(saveEvaluate(r))
    \/ Idle(saveInsert(r))
    \/ Idle(UseReturned(r))
    \/ Idle(toPlainObject(r))
    \/ toJSON(r)
    \/ JSONstringify(r)

SpecView == Init /\ [][NextView]_vars

\* the command name and timestamp entry r passes to setLastCmd
LastCmdName(r) == IF r = 1 THEN Str("ping") ELSE Str("daily")

LastCmdTime(r) == IF r = 1 THEN Num(1000) ELSE Num(2000)

(***************************************************************************)
(* Two entries of the same user that record their last command and save.   *)
(***************************************************************************)
NextLast ==
  \E r \in Records :
    \/ Fetch(r)
    \/ setLastCmd(r, LastCmdName(r), LastCmdTime(r))
    \/ saveEvaluate(r)
    \/ saveInsert(r)
    \/ saveReject(r)

SpecLast == Init /\ [][NextLast]_vars

TypeOK ==
  /\ stored = Null \/ IsObject(stored)
  /\ \A r \in Records : pc[r] \in {"new", "ready", "evaluated"}

(***************************************************************************)
(* Properties                                                              *)
(***************************************************************************)
\* the four coin fields of a document or of an entry's local data
Coins(d) == <<d.pocket.n, d.bank.n, d.won.n, d.lost.n>>

\* save() of entry r has just resolved
JustSaved(r) == last.op = "save" /\ last.r = r /\ last.ok

C1Chain(r) ==
  hist[r] = <<Event("fetch", Null, Undef), Event("addPocket", Num(100), Undef),
              Event("addBank", Num(40), Bool(TRUE)), Event("save", Undef, Undef)>>

\* C1: an entry fetched for an id without a document, after addPocket(100),
\* addBank(40, true) and save(), leaves the stored and the returned document
\* at pocket=60, bank=40, won=100, lost=0, the entry's own local values.
C1_EndToEnd ==
  \A r \in Records :
    (C1Chain(r) /\ JustSaved(r)) =>
      /\ Coins(stored.m) = <<60, 40, 100, 0>>
      /\ ret[r].data = stored.m
      /\ Coins(data[r]) = Coins(stored.m)

\* C1 (amended): after that chain the stored and the returned document hold
\* pocket=0, bank=40, won=100, lost=0, because the pocket operation of
\* addBank replaced the one of addPocket in _changes; the saved entry's local
\* values are pocket=60, bank=40, won=100, lost=0.
C1_EndToEndOverwritten ==
  \A r \in Records :
    (C1Chain(r) /\ JustSaved(r)) =>
      /\ Coins(stored.m) = <<0, 40, 100, 0>>
      /\ ret[r].data = stored.m
      /\ Coins(data[r]) = <<60, 40, 100, 0>>

C1_Witness == \E r \in Records : C1Chain(r) /\ JustSaved(r) /\ stored # Null

\* C3: the local pocket and bank of an entry are never negative.
C3_NonNegative ==
  \A r \in Records : pc[r] # "new" => data[r].pocket.n >= 0 /\ data[r].bank.n >= 0

\* paths of the non-object values of a mapping (the model nests two deep)
LeafPaths(m) ==
  {<<key>> : key \in {j \in DOMAIN m : ~IsObject(m[j])}}
    \cup UNION {{<<key, sub>> : sub \in {j \in DOMAIN m[key].m : ~IsObject(m[key].m[j])}} :
                  key \in {j \in DOMAIN m : IsObject(m[j])}}

IsPrefix(p, q) == Len(p) <= Len(q) /\ SubSeq(q, 1, Len(p)) = p

Overlap(p, q) == IsPrefix(p, q) \/ IsPrefix(q, p)

\* the step is a method call on entry r that returned
MethodReturned(r) == last'.op \in MethodNames /\ last'.r = r /\ last'.ok

C4Overwrite(r) ==
  LET object == last'.object
      old == changes[r]
      new == changes'[r]
  IN /\ \A p \in LeafPaths(object) :
          p \in LeafPaths(new) /\ GetField(new, p) = GetField(object, p)
     /\ \A p \in LeafPaths(old) :
          (\A q \in LeafPaths(object) : ~Overlap(p, q)) =>
             p \in LeafPaths(new) /\ GetField(new, p) = GetField(old, p)
     /\ LeafPaths(new) \subseteq LeafPaths(old) \cup LeafPaths(object)

C4Example(r) ==
  LET h == hist'[r]
      n == Len(h)
  IN (/\ n >= 3
      /\ h[n - 2].op \in {"fetch", "new UserEntry"}
      /\ h[n - 1].op = "addPocket"
      /\ h[n].op = "removePocket") =>
        changes'[r] = [pocket |-> RowSubMax(<<"pocket">>, ToNumber(h[n].arg)),
                       won |-> RowAdd(<<"won">>, ToNumber(h[n - 1].arg)),
                       lost |-> RowAdd(<<"lost">>, ToNumber(h[n].arg))]

\* C4: when a method writes a field path _changes already holds, the entry
\* of that path becomes the operation of the later call alone, and the
\* entries of all other paths are retained; addPocket(a) then
\* removePocket(b) leaves pocket = max(pocket - b, 0), won + a, lost + b.
C4_SamePathOverwrite ==
  [][\A r \in Records : MethodReturned(r) => C4Overwrite(r) /\ C4Example(r)]_vars

C4_Witness ==
  \E r \in Records :
    /\ Len(hist[r]) = 3
    /\ hist[r][2].op = "addPocket"
    /\ hist[r][3].op = "removePocket"
    /\ last.op = "removePocket"
    /\ changes[r].pocket.term = "submax"
    /\ "won" \in DOMAIN changes[r]

\* C5: the entry save() resolves with holds exactly the document the write
\* left in the table, not the local values of the entry that was saved, and
\* an empty _changes.
C5_ReturnedIsStored ==
  \A r \in Records :
    JustSaved(r) => ret[r].data = stored.m /\ ret[r].changes = EmptyObject

C5_Witness ==
  \E r \in Records : JustSaved(r) /\ ret[r].data # data[r] /\ ret[r].data = stored.m

\* C2: two entries fetched from the same document that each addPocket once
\* and each save once leave pocket and won at the fetched value plus both
\* amounts.
C2_BothDeltasApplied ==
  \A doc \in InitialDocs :
    LET a == ConcAmount(1)
        b == ConcAmount(2)
    IN (/\ hist[1] = <<Event("fetch", doc, Undef), Event("addPocket", a, Undef),
                       Event("save", Undef, Undef)>>
        /\ hist[2] = <<Event("fetch", doc, Undef), Event("addPocket", b, Undef),
                       Event("save", Undef, Undef)>>) =>
          /\ stored.m.pocket.n = GetOrDefault(doc, UserId).pocket.n + a.n + b.n
          /\ stored.m.won.n = GetOrDefault(doc, UserId).won.n + a.n + b.n

\* the step is a save() of entry r that rejected
SaveRejected(r) == last'.op = "save" /\ last'.r = r /\ ~last'.ok

\* the step is a save() of entry r that resolved
SaveResolved(r) == last'.op = "save" /\ last'.r = r /\ last'.ok

CoinMethods == {"addPocket", "removePocket", "addBank", "removeBank"}

\* C7: a coin method called with a falsy amount throws and changes neither
\* a local field nor _changes (nor anything else).
C7_MissingAmount ==
  [][(last'.op \in CoinMethods /\ ~Truthy(last'.arg)) =>
       /\ ~last'.ok
       /\ UNCHANGED <<stored, pc, data, changes, pending, ret, hist>>]_vars

C7_Witness ==
  /\ last.op = "removeBank"
  /\ ~last.ok
  /\ last.arg = Str("")
  /\ changes[last.r] # EmptyObject

\* C8: no method call changes the table or issues a query; only a save()
\* that resolves changes the table.
C8_OnlySaveWrites ==
  [][/\ last'.op \in MethodNames => stored' = stored /\ pending' = pending /\ ret' = ret
     /\ stored' # stored => last'.op = "save" /\ last'.ok]_vars

C8_Witness ==
  /\ last.op = "update"
  /\ stored = Null
  /\ Len(hist[last.r]) = 3
  /\ data[last.r] # getDefaultUser(UserId)

\* what a queued operation gives for the value `old` the document holds
Resolved(v, old) ==
  IF v.k # "function" THEN v
  ELSE IF v.term = "add" THEN Num(old.n + v.n)
  ELSE Num(IF old.n - v.n > 0 THEN old.n - v.n ELSE 0)

C9Upsert(r) ==
  LET base == pending[r].row
      new == stored'.m
  IN /\ \A p \in LeafPaths(changes[r]) :
          /\ p \in LeafPaths(new)
          /\ GetField(new, p) = Resolved(GetField(changes[r], p), GetField(base, p))
     /\ \A p \in LeafPaths(base) :
          (\A q \in LeafPaths(changes[r]) : ~Overlap(p, q)) =>
             p \in LeafPaths(new) /\ GetField(new, p) = GetField(base, p)
     /\ LeafPaths(new) \subseteq LeafPaths(base) \cup LeafPaths(changes[r])
     /\ ret'[r].data = new

\* C9: a save() that resolves stores and returns the stored document it
\* read, or the skeleton when it found none, with every entry of _changes
\* resolved against that document's value; every other field keeps its value.
C9_UpsertResult ==
  [][\A r \in Records :
       /\ last'.op = "save:evaluate" /\ last'.r = r =>
            pending'[r].row = IF stored = Null THEN getDefaultUser(UserId) ELSE stored.m
       /\ SaveResolved(r) => C9Upsert(r)]_vars

C9_Witness ==
  \E r \in Records :
    /\ JustSaved(r)
    /\ hist[r][1] = Event("fetch", Null, Undef)
    /\ Len(hist[r]) = 4
    /\ hist[r][2].op = "updateStreak"
    /\ hist[r][3].op = "removePocket"
    /\ stored.m.pocket = Num(0)

C10Pocket(r) ==
  LET n == ToNumber(last'.arg)
      d == data[r]
      e == data'[r]
      c == changes'[r]
  IN /\ last'.op = "addPocket" =>
          /\ e.pocket.n = d.pocket.n + n
          /\ e.won.n = d.won.n + n
          /\ c.pocket = RowAdd(<<"pocket">>, n)
          /\ c.won = RowAdd(<<"won">>, n)
     /\ last'.op = "removePocket" =>
          /\ e.pocket.n = d.pocket.n - Min(n, d.pocket.n)
          /\ e.lost.n = d.lost.n + n
          /\ c.pocket = RowSubMax(<<"pocket">>, n)
          /\ c.lost = RowAdd(<<"lost">>, n)

\* C10: addPocket(amount) adds amount to the local pocket and won;
\* removePocket(amount) takes min(amount, pocket) from the local pocket and
\* adds amount to lost; both queue the matching operations of that amount.
C10_PocketMethods == [][\A r \in Records : MethodReturned(r) => C10Pocket(r)]_vars

C10_Witness ==
  /\ last.op = "removePocket"
  /\ last.ok
  /\ last.arg = Str("7")
  /\ data[last.r].pocket.n = 0
  /\ data[last.r].lost.n = 7

\* the pocket entry of a _changes mapping, Undef when there is none
PocketEntry(m) == IF "pocket" \in DOMAIN m THEN m.pocket ELSE Undef

C11Bank(r) ==
  LET n == ToNumber(last'.arg)
      transfer == Truthy(last'.transfer)
      d == data[r]
      e == data'[r]
  IN /\ (last'.op = "addBank" /\ transfer) =>
          /\ e.bank.n = d.bank.n + n
          /\ e.pocket.n = Max(d.pocket.n - n, 0)
     /\ (last'.op = "removeBank" /\ transfer) =>
          /\ e.bank.n = Max(d.bank.n - n, 0)
          /\ e.pocket.n = d.pocket.n + n
     /\ (last'.op \in {"addBank", "removeBank"} /\ ~transfer) =>
          /\ e.pocket = d.pocket
          /\ PocketEntry(changes'[r]) = PocketEntry(changes[r])

\* C11: addBank(amount, true) sets the local bank to bank + amount and the
\* local pocket to max(pocket - amount, 0); removeBank(amount, true) sets the
\* local bank to max(bank - amount, 0) and the local pocket to pocket +
\* amount; with transfer false the local pocket and the pocket entry of
\* _changes stay as they were.
C11_ClampedTransfers == [][\A r \in Records : MethodReturned(r) => C11Bank(r)]_vars

\* pocket=50, bank=0, addBank(100, true): pocket=0, bank=100
C11_Witness ==
  /\ last.op = "addBank"
  /\ last.ok
  /\ last.arg = Num(100)
  /\ last.transfer = Bool(TRUE)
  /\ Len(hist[last.r]) = 2
  /\ hist[last.r][1].arg # Null
  /\ hist[last.r][1].arg.m.pocket = Num(50)
  /\ data[last.r].pocket = Num(0)
  /\ data[last.r].bank = Num(100)

\* the step is a call of update() on entry r, returned or thrown
UpdateCalled(r) == last'.op = "update" /\ last'.r = r

C12Replace(target, source, result) ==
  /\ \A key \in DOMAIN source :
       (~IsObject(source[key]) \/ key \notin DOMAIN target \/ ~IsObject(target[key])) =>
          key \in DOMAIN result /\ result[key] = source[key]
  /\ \A key \in (DOMAIN target) \ (DOMAIN source) :
       key \in DOMAIN result /\ result[key] = target[key]

\* C12: _deepMerge(target, source) returns a mapping that holds source's
\* value at every key where source's value is not a mapping, or target lacks
\* the key, or target's value is not a mapping; and target's value,
\* unchanged, at every key only target has.
C12_ReplacementRule ==
  [][\A r \in Records :
       UpdateCalled(r) =>
         last'.ok /\ C12Replace(changes[r], last'.object, changes'[r])]_vars

C13Recurse(target, source, result) ==
  \A key \in (DOMAIN target) \cap (DOMAIN source) :
    (IsObject(target[key]) /\ IsObject(source[key])) =>
       /\ IsObject(result[key])
       /\ result[key].m = ReqlMerge(target[key].m, source[key].m)

\* C13: where target and source both hold a mapping at a key, the result
\* holds at that key the merge of the two as the document store merges
\* them: at every depth source's values replace or merge and the keys only
\* target has keep their values.
C13_RecursionRule ==
  [][\A r \in Records :
       UpdateCalled(r) =>
         last'.ok /\ C13Recurse(changes[r], last'.object, changes'[r])]_vars

\* C14: _deepMerge(X, X) = X, so update(patch) called a second time right
\* after update(patch) leaves _changes as the first call left it.
C14_Idempotent ==
  [][\A r \in Records :
       (UpdateCalled(r) /\ last'.ok) =>
         /\ changes[r] = last'.object => changes'[r] = changes[r]
         /\ (hist[r][Len(hist[r])].op = "update"
               /\ hist[r][Len(hist[r])].arg = Obj(last'.object)) =>
                 changes'[r] = changes[r]]_vars

C14_Witness ==
  LET X == [a |-> Obj([b |-> Obj([c |-> Num(1), d |-> Num(3)]), c |-> Num(2)])]
  IN /\ last.op = "update"
     /\ last.ok
     /\ last.object = X
     /\ Len(hist[last.r]) = 3
     /\ hist[last.r][2] = Event("update", Obj(X), Undef)
     /\ hist[last.r][3] = Event("update", Obj(X), Undef)
     /\ changes[last.r] = X

\* the fields of UserData, lines 3-19
UserDataFields == DOMAIN getDefaultUser(UserId)

\* C15: whatever methods were called before, toPlainObject() returns a
\* mapping without the keys _changes and _client that holds every field of
\* UserData with the entry's current local value.
C15_PlainObjectHidesInternals ==
  [][\A r \in Records :
       (last'.op = "toPlainObject" /\ last'.r = r) =>
          /\ "_changes" \notin DOMAIN last'.object
          /\ "_client" \notin DOMAIN last'.object
          /\ \A field \in UserDataFields :
               field \in DOMAIN last'.object /\ last'.object[field] = data[r][field]]_vars

C15_Witness ==
  /\ last.op = "toPlainObject"
  /\ Len(hist[last.r]) = 3
  /\ hist[last.r][2].op = "update"
  /\ hist[last.r][3].op = "addPocket"
  /\ changes[last.r] # EmptyObject
  /\ last.object.pocket = Num(150)
  /\ DOMAIN last.object = UserDataFields

\* C16: toJSON() returns a text that encodes the fields of UserData and
\* neither _client nor _changes.
C16_ToJSONReturnsText ==
  last.op = "toJSON" =>
    /\ last.ok
    /\ last.object = JSONText(data[last.r])

\* entry q called setLastCmd and a save() it called after that has resolved
SavedLastCmd(q) ==
  \E i, j \in 1..Len(hist[q]) :
    i < j /\ hist[q][i].op = "setLastCmd" /\ hist[q][j].op = "save"

\* C17: two entries fetched from the same stored document each call
\* setLastCmd with their own name and timestamp and save; once the save() of
\* both has resolved, the stored lastRan and lastCmd are the name and the
\* timestamp of the entry whose save() resolved last.
C17_LaterSaveWins ==
  \A r \in Records :
    (/\ JustSaved(r)
     /\ \A q \in Records : SavedLastCmd(q) /\ hist[q][1].arg = hist[r][1].arg) =>
       /\ stored.m.lastRan = LastCmdName(r)
       /\ stored.m.lastCmd = LastCmdTime(r)

C17_Witness ==
  /\ JustSaved(1)
  /\ \A q \in Records : SavedLastCmd(q) /\ hist[q][1].arg # Null
  /\ Len(hist[2]) = 3
  /\ stored.m.lastRan = Str("ping")
  /\ stored.m.lastCmd = Num(1000)

IsCreation(e) == e.op \in {"fetch", "new UserEntry"}

\* the events of entry r since it was constructed: its chain of calls
RECURSIVE ChainOf(_)
ChainOf(h) ==
  IF h = <<>> \/ IsCreation(h[Len(h)]) THEN <<>>
  ELSE Append(ChainOf(SubSeq(h, 1, Len(h) - 1)), h[Len(h)])

Chain(r) == ChainOf(hist[r])

\* save() of entry r has just resolved, for the first time since the entry
\* was constructed from the stored document: nothing else wrote in between
SavedChain(r) ==
  /\ JustSaved(r)
  /\ Len(SelectSeq(Chain(r), IsSave)) = 1

IsUpdateStreak(e) == e.op = "updateStreak" /\ e.transfer = Undef

IsResetStreak(e) == e.op = "resetStreak"

\* resetStreak() was the call before this one and updateStreak the call
\* before that
ResetAfterUpdateStreak(r) ==
  /\ last.op = "resetStreak"
  /\ last.r = r
  /\ Len(Chain(r)) >= 2
  /\ Chain(r)[Len(Chain(r)) - 1].op = "updateStreak"

C18Entry(r) ==
  ResetAfterUpdateStreak(r) =>
    changes[r].streak = Obj([time |-> data[r].streak.m.time, streak |-> Num(0)])

\* C18: when save() resolves for a chain that calls updateStreak with the
\* default streak argument, with resetStreak() before or after it, on an
\* entry whose stored document nobody else changed, the stored streak count
\* equals the entry's local streak count; and resetStreak() right after
\* updateStreak(ts) leaves {time: ts, streak: 0} as the streak entry of
\* _changes.
C18_StreakConsistency ==
  \A r \in Records :
    /\ (SavedChain(r) /\ \E i \in 1..Len(Chain(r)) : IsUpdateStreak(Chain(r)[i])) =>
          stored.m.streak.m.streak = data[r].streak.m.streak
    /\ C18Entry(r)

\* the chain calls updateStreak once, with the default streak argument, and
\* no resetStreak() before it
OneUpdateStreak(r) ==
  \E u \in 1..Len(Chain(r)) :
    /\ IsUpdateStreak(Chain(r)[u])
    /\ \A i \in 1..Len(Chain(r)) : Chain(r)[i].op = "updateStreak" => i = u
    /\ \A i \in 1..(u - 1) : ~IsResetStreak(Chain(r)[i])

\* C18 (amended): the stored streak count equals the local one when the
\* chain calls updateStreak once and no resetStreak() before it (after it
\* resetStreak() may be called); resetStreak() right after updateStreak(ts)
\* leaves {time: ts, streak: 0} as the streak entry of _changes.
C18_StreakConsistencyOnce ==
  \A r \in Records :
    /\ (SavedChain(r) /\ OneUpdateStreak(r)) =>
          stored.m.streak.m.streak = data[r].streak.m.streak
    /\ C18Entry(r)

C18_Witness ==
  \E r \in Records :
    /\ SavedChain(r)
    /\ OneUpdateStreak(r)
    /\ Len(hist[r]) = 4
    /\ hist[r][1].arg # Null
    /\ hist[r][3].op = "resetStreak"
    /\ changes[r].streak = Obj([time |-> Num(1000), streak |-> Num(0)])
    /\ stored.m.streak = Obj([time |-> Num(1000), streak |-> Num(0)])

\* the patch the method call of event e passes to this.update()
PatchOf(e) ==
  CASE e.op = "addPocket" -> addPocketChanges(ToNumber(e.arg))
    [] e.op = "removePocket" -> removePocketChanges(ToNumber(e.arg))
    [] e.op = "addBank" -> addBankChanges(ToNumber(e.arg), Default(e.transfer, Bool(TRUE)))
    [] e.op = "removeBank" -> removeBankChanges(ToNumber(e.arg), Default(e.transfer, Bool(TRUE)))
    [] e.op = "updateStreak" -> updateStreakChanges(Num(0))
    [] e.op = "resetStreak" -> resetStreakChanges
    [] e.op = "addPls" -> addPlsChanges(1)
    [] e.op = "addSpam" -> addSpamChanges(1)
    [] e.op = "setLastCmd" -> setLastCmdChanges(e.arg, e.transfer)
    [] OTHER -> EmptyObject

\* the chain holds calls of the nine methods that update the local data
\* (no update()), and no two of them write the same field path
DistinctPathChain(r) ==
  LET c == Chain(r)
  IN /\ \A i \in 1..Len(c) : c[i].op # "update"
     /\ \A i, j \in 1..Len(c) :
          i < j => \A p \in LeafPaths(PatchOf(c[i])), q \in LeafPaths(PatchOf(c[j])) :
                     ~Overlap(p, q)

\* C19: when save() resolves for a chain of method calls that write every
\* field path at most once, on an entry whose stored document nobody else
\* changed, the data of the entry save() returns equals the local data of
\* the entry it was called on.
C19_OptimisticViewMatches ==
  \A r \in Records :
    (SavedChain(r) /\ DistinctPathChain(r)) => ret[r].data = data[r]

C19_Witness ==
  \E r \in Records :
    /\ SavedChain(r)
    /\ DistinctPathChain(r)
    /\ Len(hist[r]) = 4
    /\ hist[r][1].arg # Null
    /\ hist[r][2] = Event("removePocket", Num(40), Undef)
    /\ hist[r][3].op = "addPls"
    /\ ret[r].data.pocket = Num(10)
    /\ ret[r].data.pls = Num(1)

\* the history of an entry on which addPocket was called once and save()
\* resolved twice
SavedTwice(h) ==
  /\ Len(h) = 4
  /\ h[1].op = "fetch"
  /\ h[2].op = "addPocket"
  /\ h[3].op = "save"
  /\ h[4].op = "save"

\* C20: a step of save(), resolved or not, leaves the local fields and the
\* _changes of the entry it was called on as they were; so on an entry on
\* which addPocket(a) was called, the second save() to resolve leaves the
\* stored pocket at its value at the fetch plus 2a.
C20_SaveOnlyReads ==
  [][\A r \in Records :
       (last'.op \in {"save", "save:evaluate"} /\ last'.r = r) =>
          /\ data'[r] = data[r]
          /\ changes'[r] = changes[r]
          /\ (last'.ok /\ SavedTwice(hist'[r])) =>
                stored'.m.pocket.n =
                  GetOrDefault(hist'[r][1].arg, UserId).pocket.n
                    + 2 * ToNumber(hist'[r][2].arg)]_vars

C20_Witness ==
  \E r \in Records :
    /\ JustSaved(r)
    /\ SavedTwice(hist[r])
    /\ hist[r][1].arg # Null
    /\ hist[r][2].arg = Num(100)
    /\ changes[r] = addPocketChanges(100)
    /\ data[r].pocket = Num(150)
    /\ stored.m.pocket = Num(250)
====
